---- MODULE Spec2Model ----
(***************************************************************************)
(* A model of the dworp agent-based-simulation engine:                     *)
(*   - the time sources BasicTime and InfiniteTime (dworp/scheduling.py),  *)
(*   - the terminators and the three schedulers (dworp/scheduling.py),     *)
(*   - the simulation run loop that drives them, in its one-stage and      *)
(*     two-stage variants.                                                 *)
(* Three specifications share the variables:                               *)
(*   TimeSpec   a driver that pulls values from one time source,           *)
(*   SchedSpec  a driver that calls one scheduler's step,                  *)
(*   Spec       a whole simulation run.                                    *)
(***************************************************************************)
EXTENDS Integers, Sequences, FiniteSets, TLC

VARIABLES
    time,          \* the Time object (BasicTime or InfiniteTime) and its fields
    pulls,         \* history: the outcome of every next(time) so far
    scheduler,     \* the Scheduler object and its fields
    agents,        \* the list of agents
    env,           \* the environment
    schedule,      \* what the last Scheduler.step returned
    schedCalls,    \* history: number of Scheduler.step calls so far
    terminator,    \* the Terminator object
    variant,       \* "one" (one-stage run loop) or "two" (two-stage run loop)
    simState,      \* Created, Initialized, Running, Paused, Stopped
    pc,            \* position of the run loop inside a step
    current_time,  \* the run loop's current_time
    todo,          \* the part of the schedule the current phase still has to visit
    log,           \* history: the hook calls since the last pull of a time value
    calls,         \* history: how often each hook was called in the whole run
    stepStart,     \* history: env.shared when the current step's schedule was made
    stopCause,     \* history: why the run loop left Running
    observer       \* the Observer object

vars == <<time, pulls, scheduler, agents, env, schedule, schedCalls, terminator,
          variant, simState, pc, current_time, todo, log, calls, stepStart,
          stopCause, observer>>

timeVars == <<time, pulls>>
schedVars == <<scheduler, schedule, schedCalls>>
simVars == <<terminator, variant, simState, pc, todo, log, calls, stepStart,
            stopCause, observer>>

----------------------------------------------------------------------------
(* Bounds of the model *)

MaxSteps == 5     \* largest num_steps given to BasicTime
MaxAgents == 3    \* largest number of agents
MaxCalls == 2     \* Scheduler.step calls made by the scheduler driver

MaxPulls == MaxSteps + 2          \* pulls made from one time source
NumSteps == -1 .. MaxSteps        \* num_steps is any int: no check in __init__
Starts == {0, 10}
StepSizes == {-1, 0, 1, 2}
Sizes == -1 .. MaxAgents + 1      \* size is any int: no check in __init__

Min(a, b) == IF a < b THEN a ELSE b
Max(a, b) == IF a > b THEN a ELSE b
Range(s) == {s[i] : i \in DOMAIN s}
Last(s) == s[Len(s)]

----------------------------------------------------------------------------
(* Time sources *)

\* BasicTime.__init__
BasicTime(num_steps, start, step_size) ==
    [kind |-> "BasicTime", start_time |-> start, time |-> start,
     num_steps |-> num_steps, step_size |-> step_size, step_count |-> 0]

\* InfiniteTime.__init__
InfiniteTime(start, step_size) ==
    [kind |-> "InfiniteTime", start_time |-> start, time |-> start,
     step_size |-> step_size]

\* faulty variant: returns the current time
get_start_timeCurrent(self) == self.time

\* faulty variant: returns the first step's time
get_start_timeFirstStep(self) == self.start_time + self.step_size

\* get_start_time of both classes
get_start_time(self) == self.start_time

\* The outcome of a pull: a value, or StopIteration
Value(v) == [stop |-> FALSE, value |-> v]
StopIteration == [stop |-> TRUE, value |-> 0]

\* faulty variant: the exhaustion test written with >= instead of >
BasicTimeNextOffByOne(self) ==
    LET counted == [self EXCEPT !.step_count = @ + 1] IN
    IF counted.step_count >= counted.num_steps
    THEN [self |-> counted, out |-> StopIteration]
    ELSE LET moved == [counted EXCEPT !.time = @ + counted.step_size]
         IN  [self |-> moved, out |-> Value(moved.time)]

\* faulty variant: returns the time before the increment
BasicTimeNextStale(self) ==
    LET counted == [self EXCEPT !.step_count = @ + 1] IN
    IF counted.step_count > counted.num_steps
    THEN [self |-> counted, out |-> StopIteration]
    ELSE [self |-> [counted EXCEPT !.time = @ + counted.step_size],
          out |-> Value(counted.time)]

\* faulty variant: the exhaustion test written with ==, true for one pull only
BasicTimeNextOnce(self) ==
    LET counted == [self EXCEPT !.step_count = @ + 1] IN
    IF counted.step_count = counted.num_steps + 1
    THEN [self |-> counted, out |-> StopIteration]
    ELSE LET moved == [counted EXCEPT !.time = @ + counted.step_size]
         IN  [self |-> moved, out |-> Value(moved.time)]

\* BasicTime.__next__: the object after the call, and the call's outcome
BasicTimeNext(self) ==
    LET counted == [self EXCEPT !.step_count = @ + 1] IN
    IF counted.step_count > counted.num_steps
    THEN [self |-> counted, out |-> StopIteration]
    ELSE LET moved == [counted EXCEPT !.time = @ + counted.step_size]
         IN  [self |-> moved, out |-> Value(moved.time)]

\* faulty variant: returns the time before the increment
InfiniteTimeNextStale(self) ==
    [self |-> [self EXCEPT !.time = @ + self.step_size], out |-> Value(self.time)]

\* InfiniteTime.__next__
InfiniteTimeNext(self) ==
    LET moved == [self EXCEPT !.time = @ + self.step_size]
    IN  [self |-> moved, out |-> Value(moved.time)]

\* next(time), dispatched on the class
TimeNext(self) ==
    IF self.kind = "BasicTime" THEN BasicTimeNext(self) ELSE InfiniteTimeNext(self)

BasicTimes == {BasicTime(n, s, d) : n \in NumSteps, s \in Starts, d \in StepSizes}
InfiniteTimes == {InfiniteTime(s, d) : s \in Starts, d \in StepSizes}

----------------------------------------------------------------------------
(* Terminators *)

\* faulty variant: the result inverted
NullTerminatorTestTrue(t, as, e) == TRUE

\* NullTerminator.test
NullTerminatorTest(t, as, e) == FALSE

\* Terminator.test of a user's subclass: "at" stops at one time value,
\* "user" is any other predicate (its result is an input of the run)
TerminatorTest(self, t, as, e) ==
    IF self.kind = "NullTerminator" THEN {NullTerminatorTest(t, as, e)}
    ELSE IF self.kind = "at" THEN {t = self.at}
    ELSE BOOLEAN

----------------------------------------------------------------------------
(* Schedulers *)

RECURSIVE PermsOf(_)
PermsOf(S) ==
    IF S = {} THEN {<<>>}
    ELSE UNION {{<<x>> \o p : p \in PermsOf(S \ {x})} : x \in S}

\* rng.permutation(n): some ordering of arange(n), chosen by the random source
Permutation(n) == PermsOf(0 .. n - 1)

\* python's seq[:stop]
SlicePrefix(seq, stop) ==
    LET n == Len(seq)
        end == IF stop < 0 THEN Max(n + stop, 0) ELSE Min(stop, n)
    IN  SubSeq(seq, 1, end)

\* range(n) as a sequence
PyRange(n) == [i \in 1 .. n |-> i - 1]

\* faulty variant: range(1, len(agents))
BasicSchedulerStepFromOne(self, t, as, e) == {[i \in 1 .. Len(as) - 1 |-> i]}

\* BasicScheduler.step: the possible results (one)
BasicSchedulerStep(self, t, as, e) == {PyRange(Len(as))}

\* faulty variant: n draws with replacement, rng.randint(n, size=n)
RandomOrderSchedulerStepDraws(self, t, as, e) ==
    [1 .. Len(as) -> 0 .. Len(as) - 1]

\* RandomOrderScheduler.step: the possible results
RandomOrderSchedulerStep(self, t, as, e) == Permutation(Len(as))

\* faulty variant: the slice taken one short, [:size - 1]
RandomSampleSchedulerStepShort(self, t, as, e) ==
    {SlicePrefix(p, self.size - 1) : p \in Permutation(Len(as))}

\* faulty variant: rng.choice(n, size, replace=False), an error when size > n
RandomSampleSchedulerStepChoice(self, t, as, e) ==
    IF self.size > Len(as) THEN {}
    ELSE {SlicePrefix(p, self.size) : p \in Permutation(Len(as))}

\* RandomSampleScheduler.step: the possible results
RandomSampleSchedulerStep(self, t, as, e) ==
    {SlicePrefix(p, self.size) : p \in Permutation(Len(as))}

\* scheduler.step, dispatched on the class
SchedulerStep(self, t, as, e) ==
    IF self.kind = "BasicScheduler" THEN BasicSchedulerStep(self, t, as, e)
    ELSE IF self.kind = "RandomOrderScheduler" THEN RandomOrderSchedulerStep(self, t, as, e)
    ELSE RandomSampleSchedulerStep(self, t, as, e)

\* faulty variant: step stores the sample size it could serve
SchedulerCallClamping(self, t, as, e) ==
    {[self |-> IF self.kind = "RandomSampleScheduler"
               THEN [self EXCEPT !.size = Min(@, Len(as))] ELSE self,
      agents |-> as, env |-> e, out |-> s] : s \in SchedulerStep(self, t, as, e)}

\* a call of scheduler.step with what it leaves behind: the scheduler object,
\* the agent list and the environment it was given, and its result; no step
\* method assigns to self, agents or env
SchedulerCall(self, t, as, e) ==
    {[self |-> self, agents |-> as, env |-> e, out |-> s] :
        s \in SchedulerStep(self, t, as, e)}

\* RandomSampleScheduler.__init__, RandomOrderScheduler.__init__
RandomSampleScheduler(size) == [kind |-> "RandomSampleScheduler", size |-> size]
RandomOrderScheduler == [kind |-> "RandomOrderScheduler"]
BasicScheduler == [kind |-> "BasicScheduler"]

Schedulers ==
    {BasicScheduler, RandomOrderScheduler} \cup {RandomSampleScheduler(k) : k \in Sizes}

----------------------------------------------------------------------------
(* Agents, environment, observer: the collaborators the run loop calls *)

\* an agent before init (what its step does shows in env.shared and the log)
NewAgent == [inits |-> 0, init_time |-> 0]
AgentLists == {[i \in 1 .. m |-> NewAgent] : m \in 0 .. MaxAgents}

\* an environment before init; moves counts the changes agents' steps made,
\* shared is the state agents' steps read and agents' commits change
NewEnv == [inits |-> 0, init_time |-> 0, steps |-> 0, moves |-> 0, shared |-> 0]

\* one entry of the log: hook op called for agent idx (-1: none) with a time
\* value; val is the env.shared an agent's step read
Call(op, idx, t, val) == [op |-> op, idx |-> idx, time |-> t, val |-> val]

NoCalls == [env_init |-> 0, agent_init |-> 0, start |-> 0, test |-> 0,
            schedule |-> 0, env_step |-> 0, agent_step |-> 0, agent_commit |-> 0,
            step |-> 0, pause |-> 0, done |-> 0]

Bump(c, op) == [c EXCEPT ![op] = @ + 1]

\* the signals an observer's step hook can give the run loop
Signals(o) == IF o = "PauseObserver" THEN {"none", "pause", "stop"} ELSE {"none"}

----------------------------------------------------------------------------
(* TimeSpec: a driver pulls MaxPulls values from one time source *)

IdleTime == time = BasicTime(0, 0, 1) /\ pulls = <<>>
IdleSched == scheduler = BasicScheduler /\ schedule = <<>> /\ schedCalls = 0
IdleSim ==
    /\ terminator = [kind |-> "NullTerminator"]
    /\ variant = "one"
    /\ observer = "Observer"
    /\ simState = "Created"
    /\ pc = "init"
    /\ todo = <<>>
    /\ log = <<>>
    /\ calls = NoCalls
    /\ stepStart = 0
    /\ stopCause = "none"

TimeInit ==
    /\ time \in BasicTimes \cup InfiniteTimes
    /\ pulls = <<>>
    /\ agents = <<>>
    /\ env = NewEnv
    /\ current_time = get_start_time(time)
    /\ IdleSched
    /\ IdleSim

\* next(time), once more
Pull ==
    /\ Len(pulls) < MaxPulls
    /\ LET r == TimeNext(time) IN
        /\ time' = r.self
        /\ pulls' = Append(pulls, r.out)
        /\ current_time' = IF r.out.stop THEN current_time ELSE r.out.value
    /\ UNCHANGED <<agents, env, schedVars, simVars>>

TimeNextStep == Pull

TimeSpec == TimeInit /\ [][TimeNextStep]_vars

----------------------------------------------------------------------------
(* SchedSpec: a driver calls one scheduler's step MaxCalls times, each time *)
(* with some time value and some environment content                       *)

SchedInit ==
    /\ scheduler \in Schedulers
    /\ agents \in AgentLists
    /\ schedule = <<>>
    /\ schedCalls = 0
    /\ env = NewEnv
    /\ current_time = 0
    /\ IdleTime
    /\ IdleSim

CallStep ==
    /\ schedCalls < MaxCalls
    /\ \E t \in Starts, shared \in 0 .. 1 :
         LET e == [NewEnv EXCEPT !.shared = shared] IN
         \E r \in SchedulerCall(scheduler, t, agents, e) :
            /\ schedule' = r.out
            /\ scheduler' = r.self
            /\ agents' = r.agents
            /\ env' = r.env
            /\ current_time' = t
    /\ schedCalls' = schedCalls + 1
    /\ UNCHANGED <<timeVars, simVars>>

SchedNextStep == CallStep

SchedSpec == SchedInit /\ [][SchedNextStep]_vars

----------------------------------------------------------------------------
(* Spec: one run of a simulation, Simulation.run() *)

\* the agent calls of one step, in order: <<hook, index>>
StepCalls(s) == [k \in 1 .. Len(s) |-> <<"step", s[k]>>]
CommitCalls(s) == [k \in 1 .. Len(s) |-> <<"commit", s[k]>>]

\* one-stage: every scheduled agent's step, in schedule order
OneStagePlan(s) == StepCalls(s)

\* faulty variant: one loop over the schedule that calls step and commit in turn
TwoStagePlanFused(s) ==
    [k \in 1 .. 2 * Len(s) |->
        IF k % 2 = 1 THEN <<"step", s[(k + 1) \div 2]>> ELSE <<"commit", s[k \div 2]>>]

\* two-stage: every scheduled agent's step (decide) over the whole schedule,
\* then every scheduled agent's commit
TwoStagePlan(s) == StepCalls(s) \o CommitCalls(s)

Plan(v, s) == IF v = "one" THEN OneStagePlan(s) ELSE TwoStagePlan(s)

\* env.init(start_time)
EnvInit(e, t) == [e EXCEPT !.inits = @ + 1, !.init_time = t]

\* env.step(time, agents)
EnvStepOf(e, t) == [e EXCEPT !.steps = @ + 1]

\* agent.init(start_time, env)
AgentInit(a, t) == [a EXCEPT !.inits = @ + 1, !.init_time = t]

\* agent.step(time, env): reads the environment and may change it at once,
\* as Household.step does through env.move
EnvAfterAgentStep(e) == [e EXCEPT !.moves = @ + 1]

\* the commit phase of a two-stage agent: changes the shared state that the
\* agents' steps read
EnvAfterAgentCommit(e) == [e EXCEPT !.shared = @ + 1]

Terminators ==
    {[kind |-> "NullTerminator"], [kind |-> "user"]}
        \cup {[kind |-> "at", at |-> t] : t \in {1}}

SimTimes ==
    {BasicTime(n, 0, 1) : n \in NumSteps} \cup {BasicTime(n, 10, 2) : n \in NumSteps}
        \cup {InfiniteTime(0, 1), InfiniteTime(10, 2)}

Init ==
    /\ time \in SimTimes
    /\ pulls = <<>>
    /\ scheduler \in Schedulers
    /\ schedule = <<>>
    /\ schedCalls = 0
    /\ agents \in AgentLists
    /\ env = NewEnv
    /\ terminator \in Terminators
    /\ variant \in {"one", "two"}
    /\ observer \in {"Observer", "PauseObserver"}
    /\ simState = "Created"
    /\ pc = "init"
    /\ current_time = get_start_time(time)
    /\ todo = <<>>
    /\ log = <<>>
    /\ calls = NoCalls
    /\ stepStart = 0
    /\ stopCause = "none"

\* Created -> Initialized: env.init, every agent's init in list order, then
\* observer.start, all with the start time
Initialize ==
    /\ simState = "Created"
    /\ LET t == get_start_time(time)
           m == Len(agents) IN
        /\ current_time' = t
        /\ env' = EnvInit(env, t)
        /\ agents' = [i \in 1 .. m |-> AgentInit(agents[i], t)]
        /\ log' = <<Call("env_init", -1, t, 0)>>
                    \o [i \in 1 .. m |-> Call("agent_init", i - 1, t, 0)]
                    \o <<Call("start", -1, t, 0)>>
        /\ calls' = [calls EXCEPT !.env_init = @ + 1, !.agent_init = @ + m,
                                  !.start = @ + 1]
    /\ simState' = "Initialized"
    /\ pc' = "pull"
    /\ UNCHANGED <<timeVars, schedVars, terminator, variant, observer, todo,
                   stepStart, stopCause>>

\* -> Stopped: observer.done(agents, env)
Stop(cause, before, counted) ==
    /\ simState' = "Stopped"
    /\ pc' = "end"
    /\ stopCause' = cause
    /\ log' = Append(before, Call("done", -1, current_time, 0))
    /\ calls' = Bump(counted, "done")

\* the loop pulls the next time value; StopIteration ends the run
PullTime ==
    /\ simState \in {"Initialized", "Running"}
    /\ pc = "pull"
    /\ Len(pulls) < MaxPulls
    /\ LET r == TimeNext(time) IN
        /\ time' = r.self
        /\ pulls' = Append(pulls, r.out)
        /\ IF r.out.stop
           THEN /\ current_time' = current_time
                /\ Stop("exhausted", <<>>, calls)
           ELSE /\ current_time' = r.out.value
                /\ simState' = "Running"
                /\ pc' = "test"
                /\ log' = <<>>
                /\ UNCHANGED <<calls, stopCause>>
    /\ UNCHANGED <<schedVars, agents, env, terminator, variant, observer, todo,
                   stepStart>>

\* terminator.test(current_time, agents, env); true ends the run
TestTerminator ==
    /\ simState = "Running"
    /\ pc = "test"
    /\ \E stop \in TerminatorTest(terminator, current_time, agents, env) :
         LET tested == Append(log, Call("test", -1, current_time, 0)) IN
         IF stop
         THEN Stop("terminator", tested, Bump(calls, "test"))
         ELSE /\ pc' = "schedule"
              /\ log' = tested
              /\ calls' = Bump(calls, "test")
              /\ UNCHANGED <<simState, stopCause>>
    /\ UNCHANGED <<timeVars, schedVars, agents, env, terminator, variant, observer,
                   current_time, todo, stepStart>>

\* scheduler.step(current_time, agents, env) gives this step's schedule
Schedule ==
    /\ simState = "Running"
    /\ pc = "schedule"
    /\ \E r \in SchedulerCall(scheduler, current_time, agents, env) :
        /\ schedule' = r.out
        /\ scheduler' = r.self
        /\ agents' = r.agents
        /\ env' = r.env
        /\ todo' = Plan(variant, r.out)
        /\ pc' = IF variant = "one" \/ r.out = <<>> THEN "env_step" ELSE "agents"
        /\ stepStart' = r.env.shared
    /\ schedCalls' = schedCalls + 1
    /\ log' = Append(log, Call("schedule", -1, current_time, 0))
    /\ calls' = Bump(calls, "schedule")
    /\ UNCHANGED <<timeVars, terminator, variant, observer, simState, current_time,
                   stopCause>>

\* env.step(current_time, agents): before the agents in the one-stage loop,
\* with the commit phase in the two-stage loop
EnvStep ==
    /\ simState = "Running"
    /\ pc = "env_step"
    /\ env' = EnvStepOf(env, current_time)
    /\ log' = Append(log, Call("env_step", -1, current_time, 0))
    /\ calls' = Bump(calls, "env_step")
    /\ pc' = IF variant = "one" /\ todo # <<>> THEN "agents" ELSE "obs_step"
    /\ UNCHANGED <<timeVars, schedVars, agents, terminator, variant, observer,
                   simState, current_time, todo, stepStart, stopCause>>

\* where the loop goes after an agent call
AfterAgents(rest) ==
    IF rest # <<>> THEN "agents" ELSE IF variant = "one" THEN "obs_step" ELSE "env_step"

\* agents[index].step(current_time, env) for the next index of the plan
AgentStep ==
    /\ simState = "Running"
    /\ pc = "agents"
    /\ todo # <<>>
    /\ Head(todo)[1] = "step"
    /\ env' = EnvAfterAgentStep(env)
    /\ log' = Append(log, Call("agent_step", Head(todo)[2], current_time, env.shared))
    /\ calls' = Bump(calls, "agent_step")
    /\ todo' = Tail(todo)
    /\ pc' = AfterAgents(Tail(todo))
    /\ UNCHANGED <<timeVars, schedVars, agents, terminator, variant, observer,
                   simState, current_time, stepStart, stopCause>>

\* two-stage: the commit of the next index of the plan
AgentCommit ==
    /\ simState = "Running"
    /\ pc = "agents"
    /\ todo # <<>>
    /\ Head(todo)[1] = "commit"
    /\ env' = EnvAfterAgentCommit(env)
    /\ log' = Append(log, Call("agent_commit", Head(todo)[2], current_time, 0))
    /\ calls' = Bump(calls, "agent_commit")
    /\ todo' = Tail(todo)
    /\ pc' = AfterAgents(Tail(todo))
    /\ UNCHANGED <<timeVars, schedVars, agents, terminator, variant, observer,
                   simState, current_time, stepStart, stopCause>>

\* observer.step(current_time, agents, env) ends the step; a pause-capable
\* observer may ask the loop to pause or to stop before the next step
ObserverStep ==
    /\ simState = "Running"
    /\ pc = "obs_step"
    /\ LET observed == Append(log, Call("step", -1, current_time, 0)) IN
       \E signal \in Signals(observer) :
         IF signal = "stop"
         THEN Stop("stop", observed, Bump(calls, "step"))
         ELSE /\ simState' = IF signal = "pause" THEN "Paused" ELSE "Running"
              /\ pc' = "pull"
              /\ log' = observed
              /\ calls' = IF signal = "pause"
                          THEN Bump(Bump(calls, "step"), "pause")
                          ELSE Bump(calls, "step")
              /\ UNCHANGED stopCause
    /\ UNCHANGED <<timeVars, schedVars, agents, env, terminator, variant, observer,
                   current_time, todo, stepStart>>

\* faulty variant: the resumed loop starts again at the current time value
ResumeAtTest == "test"

\* where a resumed loop goes on: at the pull of the next time value
ResumeAt == "pull"

\* a paused run is resumed at the next pending time value
Resume ==
    /\ simState = "Paused"
    /\ simState' = "Running"
    /\ pc' = ResumeAt
    /\ UNCHANGED <<timeVars, schedVars, agents, env, terminator, variant, observer,
                   current_time, todo, log, calls, stepStart, stopCause>>

Next ==
    \/ Initialize
    \/ PullTime
    \/ TestTerminator
    \/ Schedule
    \/ EnvStep
    \/ AgentStep
    \/ AgentCommit
    \/ ObserverStep
    \/ Resume

Spec == Init /\ [][Next]_vars

----------------------------------------------------------------------------
(* Properties of the time sources, under TimeSpec *)

\* the pulls so far that produced a value
Produced == {i \in 1 .. Len(pulls) : ~pulls[i].stop}

\* C4: a BasicTime built with num_steps = n, start = s, step_size = d
\* produces exactly n values, the i-th pull giving s + i*d for i = 1..n, and
\* the (n+1)-th pull signals StopIteration
C4_BasicTimeValues ==
    time.kind = "BasicTime" =>
        /\ \A i \in 1 .. Len(pulls) :
              /\ (i <= time.num_steps) =>
                    (/\ ~pulls[i].stop
                     /\ pulls[i].value = time.start_time + i * time.step_size)
              /\ (i = time.num_steps + 1) => pulls[i] = StopIteration
        /\ Cardinality(Produced) = Min(Len(pulls), Max(time.num_steps, 0))

C4_Witness ==
    /\ time.kind = "BasicTime"
    /\ time.num_steps = 3 /\ time.start_time = 10 /\ time.step_size = 2
    /\ pulls = <<Value(12), Value(14), Value(16), StopIteration>>

\* C5: the k-th value pulled from an InfiniteTime built with start and
\* step_size is start + k*step_size, and no pull signals StopIteration
C5_InfiniteTimeValues ==
    time.kind = "InfiniteTime" =>
        \A k \in 1 .. Len(pulls) :
            /\ ~pulls[k].stop
            /\ pulls[k].value = time.start_time + k * time.step_size

C5_Witness ==
    /\ time.kind = "InfiniteTime"
    /\ time.start_time = 10 /\ time.step_size = 2
    /\ Len(pulls) = MaxPulls
    /\ pulls[MaxPulls] = Value(10 + 2 * MaxPulls)

\* C11: the successive values a time source produces never decrease, and
\* the first value produced is strictly after the start time
C11_Monotone ==
    /\ \A i, j \in Produced : i < j => pulls[i].value <= pulls[j].value
    /\ 1 \in Produced => pulls[1].value > get_start_time(time)

\* what C13 says of each state: get_start_time is not among the values
\* produced when step_size is not 0, and before any pull the current time is
\* the start time
C13_State ==
    /\ pulls = <<>> => time.time = get_start_time(time)
    /\ get_start_time(time) \in Starts
    /\ time.step_size # 0 =>
          \A i \in Produced : pulls[i].value # get_start_time(time)

\* what C13 says of each pull: it moves the current time by step_size when
\* it produces a value, and never changes what get_start_time returns
C13_Pull ==
    /\ get_start_time(time') = get_start_time(time)
    /\ Len(pulls') > Len(pulls) =>
          IF Last(pulls').stop
          THEN time'.time = time.time
          ELSE time'.time = time.time + time.step_size
                 /\ Last(pulls').value = time'.time

\* C13: get_start_time returns the start given at construction after any
\* number of pulls, also after exhaustion; a pull changes the current time
\* only; the start time is not one of the values produced when step_size # 0
C13_StartTimeKept == [](C13_State) /\ [][C13_Pull]_vars

C13_Witness ==
    /\ time.kind = "BasicTime" /\ time.num_steps = 2
    /\ time.start_time = 10 /\ time.step_size = 2
    /\ pulls = <<Value(12), Value(14), StopIteration, StopIteration>>
    /\ time.time = 14
    /\ get_start_time(time) = 10

\* C19: once a pull from a BasicTime signalled StopIteration every later pull
\* does, the current time stays at start + num_steps*step_size (num_steps
\* >= 0), and a BasicTime with num_steps <= 0 produces no value at all
C19_StickyExhaustion ==
    time.kind = "BasicTime" =>
        /\ \A i, j \in 1 .. Len(pulls) : (i < j /\ pulls[i].stop) => pulls[j].stop
        /\ (time.num_steps >= 0 /\ \E i \in 1 .. Len(pulls) : pulls[i].stop) =>
              time.time = time.start_time + time.num_steps * time.step_size
        /\ time.num_steps <= 0 => Produced = {}

C19_Witness ==
    /\ time.kind = "BasicTime" /\ time.num_steps = 2
    /\ time.start_time = 10 /\ time.step_size = 2
    /\ Len(pulls) = MaxPulls
    /\ \A i \in 3 .. MaxPulls : pulls[i].stop
    /\ time.time = 14

----------------------------------------------------------------------------
(* Properties of the schedulers, under SchedSpec *)

NoDuplicates(s) == \A i, j \in DOMAIN s : i # j => s[i] # s[j]
Ascending(s) == \A i, j \in DOMAIN s : i < j => s[i] < s[j]
AgentIndices == 0 .. Len(agents) - 1

\* C6: BasicScheduler.step returns the indices 0..len(agents)-1 in ascending
\* order, each exactly once, whatever the time value and the environment
C6_InOrder ==
    (scheduler.kind = "BasicScheduler" /\ schedCalls > 0) =>
        /\ Range(schedule) = AgentIndices
        /\ Len(schedule) = Len(agents)
        /\ Ascending(schedule)

C6_Witness ==
    /\ scheduler.kind = "BasicScheduler"
    /\ schedCalls = 2
    /\ Len(agents) = 3
    /\ schedule = <<0, 1, 2>>
    /\ current_time = 10 /\ env.shared = 1

\* C7: every RandomOrderScheduler.step returns a permutation of
\* 0..len(agents)-1: the same set of indices, no duplicates, no omissions
C7_Permutation ==
    (scheduler.kind = "RandomOrderScheduler" /\ schedCalls > 0) =>
        /\ Range(schedule) = AgentIndices
        /\ Len(schedule) = Len(agents)
        /\ NoDuplicates(schedule)

C7_Witness ==
    /\ scheduler.kind = "RandomOrderScheduler"
    /\ schedCalls = 2
    /\ Len(agents) = 3
    /\ schedule = <<2, 0, 1>>

\* C8: with sample size k, 0 <= k <= len(agents), every
\* RandomSampleScheduler.step returns exactly k pairwise-distinct indices,
\* each in 0..len(agents)-1
C8_Sample ==
    (/\ scheduler.kind = "RandomSampleScheduler"
     /\ scheduler.size >= 0 /\ scheduler.size <= Len(agents)
     /\ schedCalls > 0) =>
        /\ Len(schedule) = scheduler.size
        /\ NoDuplicates(schedule)
        /\ Range(schedule) \subseteq AgentIndices

C8_Witness ==
    /\ scheduler.kind = "RandomSampleScheduler"
    /\ scheduler.size = 2
    /\ schedCalls = 2
    /\ Len(agents) = 3
    /\ schedule = <<2, 0>>

\* C20: with any sample size k >= 0, also k > len(agents), every
\* RandomSampleScheduler.step gives a result (no error) of exactly
\* min(k, len(agents)) pairwise-distinct indices in 0..len(agents)-1, a
\* prefix of one permutation of all indices
C20_SampleAnySize ==
    (scheduler.kind = "RandomSampleScheduler" /\ scheduler.size >= 0) =>
        /\ SchedulerStep(scheduler, current_time, agents, env) # {}
        /\ schedCalls > 0 =>
            /\ Len(schedule) = Min(scheduler.size, Len(agents))
            /\ NoDuplicates(schedule)
            /\ Range(schedule) \subseteq AgentIndices
            /\ \E p \in Permutation(Len(agents)) :
                  schedule = SubSeq(p, 1, Len(schedule))

C20_Witness ==
    /\ scheduler.kind = "RandomSampleScheduler"
    /\ scheduler.size = 4
    /\ schedCalls = 2
    /\ Len(agents) = 3
    /\ schedule = <<1, 2, 0>>

----------------------------------------------------------------------------
(* Properties of the simulation run, under Spec *)

Ops(s) == [k \in DOMAIN s |-> s[k].op]
HasOp(s, op) == \E k \in DOMAIN s : s[k].op = op
FixedCount == time.kind = "BasicTime" /\ time.num_steps >= 0

\* what C1 says of each state of a one-stage run over n time values
C1_State ==
    (variant = "one" /\ FixedCount) =>
        /\ calls.start = (IF simState = "Created" THEN 0 ELSE 1)
        /\ calls.step > 0 => calls.start = 1
        /\ calls.done = (IF simState = "Stopped" THEN 1 ELSE 0)
        /\ calls.step <= time.num_steps
        /\ simState = "Stopped" =>
            /\ Last(log).op = "done"
            /\ stopCause = "exhausted" => calls.step = time.num_steps
            /\ stopCause = "terminator" => calls.step < time.num_steps
            /\ (stopCause = "stop" /\ time.step_count < time.num_steps) =>
                    calls.step < time.num_steps

\* what C1 says of each step of the run: start fires while no step hook has
\* fired, and nothing is called once done has fired
C1_Step ==
    /\ calls'.start > calls.start => (calls.step = 0 /\ calls'.step = 0)
    /\ simState = "Stopped" => (simState' = "Stopped" /\ calls' = calls /\ log' = log)

\* C1: in a one-stage run over a BasicTime with n steps, the observer's start
\* fires exactly once and before any observer step; observer step fires n
\* times when the run ends by exhaustion and fewer times when the terminator
\* or a stop signal ends it before the last time value; done fires exactly
\* once, as the last call; a Stopped run never restarts
C1_Lifecycle == [](C1_State) /\ [][C1_Step]_vars

C1_Witness ==
    /\ variant = "one" /\ time.kind = "BasicTime" /\ time.num_steps = 3
    /\ Len(agents) = 2
    /\ simState = "Stopped" /\ stopCause = "exhausted"
    /\ calls.start = 1 /\ calls.step = 3 /\ calls.done = 1
    /\ log = <<Call("done", -1, current_time, 0)>>

\* C2: in a two-stage run, every agent step (decide) of a step of the run
\* comes before every commit of that step, and reads the shared environment
\* state as it was when the step began
C2_Isolation ==
    variant = "two" =>
        \A k \in DOMAIN log :
            log[k].op = "agent_step" =>
                /\ log[k].val = stepStart
                /\ \A j \in 1 .. k - 1 : log[j].op # "agent_commit"

C2_Witness ==
    /\ variant = "two"
    /\ calls.step > 0
    /\ \E j, k \in DOMAIN log :
         /\ log[j].op = "agent_commit" /\ log[k].op = "agent_commit"
         /\ log[j].idx # log[k].idx
    /\ \E j, k \in DOMAIN log :
         /\ log[j].op = "agent_step" /\ log[k].op = "agent_step"
         /\ log[j].idx # log[k].idx
         /\ log[j].val = stepStart /\ log[k].val = stepStart
    /\ env.shared = stepStart + 2
    /\ stepStart > 0

\* the run of the scenario: terminator true at time 1, BasicTime(5)
TermAtOneOfFive ==
    /\ terminator = [kind |-> "at", at |-> 1]
    /\ time.kind = "BasicTime" /\ time.num_steps = 5
    /\ time.start_time = 0 /\ time.step_size = 1

\* C3: when the terminator returns true for a pulled time value the run
\* stops without the scheduler, env.step, any agent step or observer.step
\* being called for that value; when that is its first test, init and start
\* have run once, observer.step never, done once (so for a terminator true
\* at time 1 of a BasicTime(5) run)
C3_TerminatorStops ==
    /\ stopCause = "terminator" =>
        /\ log = <<Call("test", -1, current_time, 0), Call("done", -1, current_time, 0)>>
        /\ calls.schedule = calls.test - 1
        /\ calls.env_step = calls.test - 1
        /\ calls.step = calls.test - 1
        /\ calls.done = 1
        /\ calls.test = 1 =>
            /\ calls.env_init = 1 /\ env.inits = 1
            /\ calls.agent_init = Len(agents)
            /\ \A i \in DOMAIN agents : agents[i].inits = 1
            /\ calls.start = 1
            /\ calls.agent_step = 0
    /\ (TermAtOneOfFive /\ simState = "Stopped") =>
        /\ stopCause = "terminator"
        /\ calls.start = 1 /\ calls.step = 0 /\ calls.done = 1

C3_Witness ==
    /\ TermAtOneOfFive
    /\ Len(agents) = 3
    /\ simState = "Stopped" /\ stopCause = "terminator"
    /\ current_time = 1
    /\ calls.start = 1 /\ calls.step = 0 /\ calls.done = 1

\* a configuration the specification calls an error
ConfigError ==
    \/ time.kind = "BasicTime" /\ time.num_steps < 0
    \/ /\ scheduler.kind = "RandomSampleScheduler"
       /\ (scheduler.size < 0 \/ scheduler.size > Len(agents))

\* C9: a negative step count given to BasicTime, or a sample size that is
\* negative or exceeds the agent count given to RandomSampleScheduler, is
\* rejected at construction, so a run with it never enters Running
C9_FailFast == ConfigError => simState # "Running"

\* the calls of a whole one-stage step, as <<op, idx>>
OneStageStep(s) ==
    <<<<"test", -1>>, <<"schedule", -1>>, <<"env_step", -1>>>>
        \o [k \in 1 .. Len(s) |-> <<"agent_step", s[k]>>]
        \o <<<<"step", -1>>>>

IsPrefix(s, t) == Len(s) <= Len(t) /\ s = SubSeq(t, 1, Len(s))

\* the calls of the current step; done ends the run, not the step
StepLog == SelectSeq(log, LAMBDA c : c.op # "done")

ThreeInOrderTwoSteps ==
    /\ variant = "one"
    /\ Len(agents) = 3
    /\ scheduler.kind = "BasicScheduler"
    /\ time.kind = "BasicTime" /\ time.num_steps = 2
    /\ terminator.kind = "NullTerminator"

\* C10: in each step of a one-stage run env.step runs first, then each
\* scheduled agent's step exactly once in the order the scheduler returned,
\* then observer.step, all with the step's time value; with 3 agents,
\* BasicScheduler, BasicTime(2) and NullTerminator, observer.step runs 2
\* times and the agents' steps run in the order 0, 1, 2 in each step
C10_OneStageOrder ==
    /\ (variant = "one" /\ HasOp(log, "schedule")) =>
        /\ IsPrefix([k \in DOMAIN StepLog |-> <<StepLog[k].op, StepLog[k].idx>>],
                    OneStageStep(schedule))
        /\ \A k \in DOMAIN StepLog : StepLog[k].time = current_time
        /\ HasOp(log, "step") => Len(StepLog) = Len(schedule) + 4
    /\ ThreeInOrderTwoSteps =>
        /\ HasOp(log, "step") =>
              SelectSeq(log, LAMBDA c : c.op = "agent_step")
                = [k \in 1 .. 3 |-> Call("agent_step", k - 1, current_time, stepStart)]
        /\ (simState = "Stopped" /\ stopCause = "exhausted") =>
              (calls.step = 2 /\ calls.agent_step = 6 /\ calls.env_step = 2)

C10_Witness ==
    /\ ThreeInOrderTwoSteps
    /\ observer = "Observer"
    /\ calls.step = 2
    /\ calls.agent_step = 6
    /\ Ops(log) = <<"test", "schedule", "env_step", "agent_step", "agent_step",
                    "agent_step", "step">>

\* the loop is calling scheduler.step in this step of the run
SchedulerCalled == calls'.schedule > calls.schedule

\* C17: a call of any scheduler's step leaves the agent list, every agent and
\* the environment as they were and changes nothing of the scheduler object
\* (the sample size stays the same); each schedule is made from the current
\* agent list
C17_SchedulerFrame ==
    [][SchedulerCalled =>
        /\ agents' = agents
        /\ env' = env
        /\ scheduler' = scheduler
        /\ Range(schedule') \subseteq AgentIndices
        /\ scheduler.kind # "RandomSampleScheduler" => Len(schedule') = Len(agents)]_vars

C17_Witness ==
    /\ scheduler = RandomSampleScheduler(4)
    /\ Len(agents) = 3
    /\ calls.schedule = 2
    /\ Len(schedule) = 3
    /\ env.moves = 3

\* the schedule must be empty: no agents, or a sample of size 0
EmptySchedule ==
    \/ Len(agents) = 0
    \/ scheduler.kind = "RandomSampleScheduler" /\ scheduler.size = 0

\* C16: with no agents (any scheduler) or a RandomSampleScheduler of size 0
\* every schedule is empty and the run still goes through every time value,
\* calling env.step and observer.step once per step, start once and done
\* once, and no agent step
C16_EmptySchedule ==
    EmptySchedule =>
        /\ SchedulerStep(scheduler, current_time, agents, env) = {<<>>}
        /\ schedCalls > 0 => schedule = <<>>
        /\ calls.agent_step = 0 /\ calls.agent_commit = 0
        /\ calls.env_step \in {calls.schedule - 1, calls.schedule}
        /\ calls.step \in {calls.env_step - 1, calls.env_step}
        /\ pc \in {"pull", "end"} =>
              (calls.env_step = calls.schedule /\ calls.step = calls.schedule)
        /\ HasOp(log, "step") =>
              Ops(StepLog) = <<"test", "schedule", "env_step", "step">>
        /\ (simState = "Stopped" /\ stopCause = "exhausted" /\ FixedCount) =>
            /\ calls.start = 1 /\ calls.done = 1
            /\ calls.env_step = time.num_steps
            /\ calls.step = time.num_steps

C16_Witness ==
    /\ scheduler = RandomSampleScheduler(0)
    /\ Len(agents) = 3
    /\ time.kind = "BasicTime" /\ time.num_steps = 3
    /\ simState = "Stopped" /\ stopCause = "exhausted"
    /\ calls.step = 3 /\ calls.env_step = 3 /\ calls.agent_step = 0
    /\ calls.start = 1 /\ calls.done = 1

\* a run with the default terminator over a BasicTime
NullOverFixed == terminator.kind = "NullTerminator" /\ time.kind = "BasicTime"

\* C18: NullTerminator.test is false for every input, so a run with it over
\* BasicTime(n, s, d) that no observer stops ends by exhaustion only, after
\* exactly n steps, the i-th observer.step being given the time s + i*d
C18_NeverTerminates ==
    /\ \A t \in Starts, as \in AgentLists, shared \in 0 .. 1 :
          ~NullTerminatorTest(t, as, [NewEnv EXCEPT !.shared = shared])
    /\ NullOverFixed =>
        /\ stopCause \in {"none", "exhausted", "stop"}
        /\ ~NullTerminatorTest(current_time, agents, env)
        /\ (simState = "Stopped" /\ stopCause # "stop") =>
              calls.step = Max(time.num_steps, 0)
        /\ HasOp(log, "step") =>
              /\ Last(StepLog).op = "step"
              /\ Last(StepLog).time = time.start_time + calls.step * time.step_size

C18_Witness ==
    /\ NullOverFixed
    /\ observer = "Observer"
    /\ time.num_steps = 3 /\ time.start_time = 10 /\ time.step_size = 2
    /\ calls.step = 3 /\ calls.test = 3
    /\ Last(log) = Call("step", -1, 16, 0)

InitCalls(t) ==
    <<Call("env_init", -1, t, 0)>>
        \o [i \in 1 .. Len(agents) |-> Call("agent_init", i - 1, t, 0)]
        \o <<Call("start", -1, t, 0)>>

\* C12: on entering Initialized env.init and every agent's init have run
\* exactly once, with the time source's start time, the environment first,
\* all before observer.start, which runs before the first time value is
\* pulled; no init runs again later in the run
C12_InitOnce ==
    /\ simState = "Created" =>
        /\ calls = NoCalls /\ pulls = <<>>
        /\ env.inits = 0 /\ \A i \in DOMAIN agents : agents[i].inits = 0
    /\ simState = "Initialized" =>
        /\ log = InitCalls(time.start_time)
        /\ pulls = <<>> /\ calls.test = 0 /\ calls.schedule = 0
        /\ env.steps = 0 /\ env.moves = 0 /\ env.shared = 0
    /\ simState # "Created" =>
        /\ env.inits = 1 /\ env.init_time = time.start_time
        /\ \A i \in DOMAIN agents :
              agents[i].inits = 1 /\ agents[i].init_time = time.start_time
        /\ calls.env_init = 1 /\ calls.agent_init = Len(agents) /\ calls.start = 1
    /\ simState \in {"Running", "Paused", "Stopped"} =>
        \A k \in DOMAIN log : log[k].op \notin {"env_init", "agent_init", "start"}

C12_Witness ==
    /\ simState = "Stopped"
    /\ Len(agents) = 3
    /\ time.start_time = 10 /\ time.time = 16
    /\ calls.step = 3
    /\ env.inits = 1 /\ env.init_time = 10
    /\ \A i \in 1 .. 3 : agents[i].inits = 1 /\ agents[i].init_time = 10

\* what C14 says of each state: a run is paused between steps only, and
\* whenever it stands between steps every time value pulled so far has been
\* processed exactly once
C14_State ==
    /\ simState = "Paused" =>
        (pc = "pull" /\ todo = <<>> /\ Last(log).op = "step")
    /\ calls.test = Cardinality(Produced) - (IF pc = "test" THEN 1 ELSE 0)
    /\ calls.step <= calls.test
    /\ (pc = "pull" /\ simState \in {"Running", "Paused"}) =>
        /\ calls.step = Cardinality(Produced)
        /\ current_time = time.time
        /\ Last(log) = Call("step", -1, current_time, 0)
    /\ calls.pause <= calls.step

\* what C14 says of each step of the run: a resume goes on at the pull of the
\* next time value and changes nothing else, nothing done is undone, and
\* nothing runs after Stopped
C14_Step ==
    /\ simState = "Paused" =>
        /\ simState' = "Running" /\ pc' = "pull"
        /\ UNCHANGED <<time, pulls, agents, env, calls, log, current_time>>
    /\ env'.steps >= env.steps /\ env'.moves >= env.moves /\ env'.shared >= env.shared
    /\ \A op \in DOMAIN calls : calls'[op] >= calls[op]
    /\ Len(pulls') >= Len(pulls) /\ SubSeq(pulls', 1, Len(pulls)) = pulls
    /\ simState = "Stopped" => UNCHANGED vars

\* C14: a pause halts the run between steps only; a resumed run goes on at
\* the next pending time value, so that every time value is processed at
\* most once, none skipped or repeated, and no completed step is undone;
\* after a terminal stop no step runs
C14_PauseResume == [](C14_State) /\ [][C14_Step]_vars

C14_Witness ==
    /\ observer = "PauseObserver"
    /\ time.kind = "BasicTime" /\ time.num_steps = 3
    /\ calls.pause = 2
    /\ simState = "Stopped" /\ stopCause = "exhausted"
    /\ calls.step = 3 /\ calls.test = 3

----------------------------------------------------------------------------
(* The simulation run with failing hooks: ErrSpec is Spec plus the steps in
   which a hook of the environment, an agent or the observer raises *)

\* faulty variant: the loop catches the error and goes on with the next step
ErrorExitSwallowed == [simState |-> "Running", pc |-> "pull", cause |-> "none"]

\* how a raising hook leaves the run: the exception leaves the loop, to its
\* caller
ErrorExit == [simState |-> "Failed", pc |-> "end", cause |-> "error"]

\* the runs with failing hooks start from the time sources that start at 0
ErrInit ==
    /\ Init
    /\ time.start_time = 0
    /\ terminator.kind # "at"

\* the k-th call of the initialization raises: the calls before it are made,
\* the raising one and those after it are not
InitRaises ==
    /\ simState = "Created"
    /\ \E k \in 1 .. Len(agents) + 2 :
        LET t == get_start_time(time)
            m == Len(agents) IN
        /\ env' = IF k > 1 THEN EnvInit(env, t) ELSE env
        /\ agents' = [i \in 1 .. m |->
                        IF i < k - 1 THEN AgentInit(agents[i], t) ELSE agents[i]]
        /\ log' = Append(SubSeq(InitCalls(t), 1, k - 1),
                         Call("raise", k - 2, t, 0))
        /\ calls' = [calls EXCEPT !.env_init = IF k > 1 THEN 1 ELSE 0,
                                  !.agent_init = Min(Max(k - 2, 0), m)]
    /\ simState' = ErrorExit.simState
    /\ pc' = ErrorExit.pc
    /\ stopCause' = ErrorExit.cause
    /\ UNCHANGED <<timeVars, schedVars, terminator, variant, observer,
                   current_time, todo, stepStart>>

\* the hook the loop is about to call (env.step, an agent's step or complete,
\* observer.step) raises instead of returning
HookRaises ==
    /\ simState = "Running"
    /\ pc \in {"env_step", "agents", "obs_step"}
    /\ log' = Append(log, Call("raise",
                               IF pc = "agents" THEN Head(todo)[2] ELSE -1,
                               current_time, 0))
    /\ simState' = ErrorExit.simState
    /\ pc' = ErrorExit.pc
    /\ stopCause' = ErrorExit.cause
    /\ UNCHANGED <<timeVars, schedVars, agents, env, terminator, variant, observer,
                   current_time, todo, calls, stepStart>>

ErrNext ==
    \/ Next
    \/ InitRaises
    \/ HookRaises

ErrSpec == ErrInit /\ [][ErrNext]_vars

\* a hook has raised and nothing was called after it
Raised == log # <<>> /\ Last(log).op = "raise"

\* what C15 says of each state: a raised error has left the run Failed, with
\* the raising call the last one made, and an exhausted time source has
\* left it Stopped, never Failed
C15_State ==
    /\ HasOp(log, "raise") => (Raised /\ simState = "Failed")
    /\ simState = "Failed" <=> stopCause = "error"
    /\ simState = "Failed" => (Raised /\ pc = "end" /\ calls.done = 0)
    /\ (pulls # <<>> /\ Last(pulls) = StopIteration) =>
        (simState = "Stopped" /\ stopCause = "exhausted" /\ ~HasOp(log, "raise"))

\* what C15 says of each step of the run: the raising hook is not counted as
\* having run and its effect is not applied, and nothing at all happens after
\* the error: no retry, no further step
C15_Step ==
    /\ (Raised' /\ ~Raised /\ simState = "Running") =>
        (calls' = calls /\ env' = env /\ agents' = agents /\ pulls' = pulls)
    /\ simState = "Failed" => UNCHANGED vars

\* C15: an error raised by a hook of the environment, an agent or the
\* observer, during the initialization or a step, ends the run as failed:
\* it is not swallowed, the hook is not retried and no further step runs;
\* the exhaustion of the time source ends the run normally, never as failed
C15_ErrorsPropagate == [](C15_State) /\ [][C15_Step]_vars

C15_Witness ==
    /\ simState = "Failed"
    /\ Len(agents) = 3 /\ variant = "two"
    /\ calls.step = 1 /\ calls.agent_step = 4 /\ calls.agent_commit = 3
    /\ Last(log) = Call("raise", 1, 2, 0)

====
